---- MODULE Spec2Model ----
(***************************************************************************)
(* TeamAssist IA.                                                          *)
(*   Appl.py     : the check-in form, compute_scores,                      *)
(*                 generate_recommendations and the session history.       *)
(*   Collecte.py : load_data over the "data" worksheet and the sidebar     *)
(*                 filters of the consultation dashboard.                  *)
(* A Streamlit script is rerun from top to bottom on every interaction;    *)
(* each action below is one such rerun with the widget values it had.      *)
(* The wall-clock "date" field of a history entry (Appl.py:210) comes from *)
(* the environment and is left out of the record.                          *)
(***************************************************************************)
EXTENDS Integers, Sequences, FiniteSets, TLC

VARIABLES
    \* Appl.py
    mood, workload, sleep, focus, conflicts, comment,   \* form widgets
    role, anonym, consent,                              \* sidebar / consent
    submitted,                                          \* the button's value in this rerun
    history,                                            \* st.session_state.history
    shown,                                              \* what the dashboard column rendered
    args,                                               \* arguments handed to generate_recommendations
    \* Collecte.py
    values,                                             \* ws.get_all_values()
    load, df,                                           \* outcome of load_data()
    org_filter, role_filter, date_range,                \* sidebar filters
    filtered                                            \* the filtered table

applVars == <<mood, workload, sleep, focus, conflicts, comment,
              role, anonym, consent, submitted, history, shown, args>>
collVars == <<values, load, df, org_filter, role_filter, date_range, filtered>>
vars == <<applVars, collVars>>

None == "None"

(***************************************************************************)
(* Bounds of the model.                                                    *)
(***************************************************************************)
MaxCommentLen == 3      \* longest comment typed in the text area
MaxHistory    == 2      \* consented submissions followed in one session
MaxRows       == 2      \* data rows of the worksheet

Min(a, b) == IF a < b THEN a ELSE b
Max(a, b) == IF a > b THEN a ELSE b

(***************************************************************************)
(* Appl.py : widget domains                                                *)
(***************************************************************************)
Moods     == 1..5
Workloads == {"Faible", "Moyenne", "Élevée"}
Sleeps    == 0..10
Focuses   == 1..5
Conflicts == {"Non", "Oui (léger)", "Oui (important)"}
Roles     == {"Collaborateur", "Manager", "RH"}

\* Characters a comment is typed from: enough to spell the red flag "mal"
\* in either case, and words that do not contain it.
Alphabet == {"M", "a", "l"}

SeqsUpTo(S, n) == UNION {[1..k -> S] : k \in 0..n}

Comments == SeqsUpTo(Alphabet, MaxCommentLen)

(***************************************************************************)
(* Appl.py : compute_scores                                                *)
(***************************************************************************)
workload_map == [w \in Workloads |->
                    CASE w = "Faible" -> 1 [] w = "Moyenne" -> 3 [] w = "Élevée" -> 5]
conflict_map == [c \in Conflicts |->
                    CASE c = "Non" -> 1 [] c = "Oui (léger)" -> 3 [] c = "Oui (important)" -> 5]

\* max(0, min(100, x))
MutClamp(x) == x
clamp(x) == Max(0, Min(100, x))

\* str.lower(), one character at a time
LowerChar(ch) ==
    CASE ch = "M" -> "m"
      [] ch = "A" -> "a"
      [] ch = "L" -> "l"
      [] OTHER    -> ch
lower(s) == [i \in 1..Len(s) |-> LowerChar(s[i])]

\* k in text  (substring test)
Contains(text, k) ==
    \E i \in 0..(Len(text) - Len(k)) :
        \A j \in 1..Len(k) : text[i + j] = k[j]

red_flags == <<
    <<"b","u","r","n","o","u","t">>,
    <<"é","p","u","i","s">>,
    <<"a","n","g","o","i","s","s">>,
    <<"p","a","n","i","c">>,
    <<"d","é","p","r","i","m">>,
    <<"h","a","r","c","e","l">>,
    <<"i","n","s","o","m">>,
    <<"m","a","l">>,
    <<"p","r","e","s","s","i","o","n">>,
    <<"o","v","e","r","l","o","a","d">> >>

keyword_hit_of(c) == \E n \in 1..Len(red_flags) : Contains(lower(c), red_flags[n])

\* round(stress * 0.6 + (100 - motivation) * 0.4).  The exact value is
\* (3*stress + 2*(100 - motivation)) / 5, whose fractional part is a multiple
\* of 0.2, so no tie arises and the float error never reaches a half.
round_risk(stress, motivation) == (3 * stress + 2 * (100 - motivation) + 2) \div 5

MutStress(m, w, s, f, c) == clamp((w * 12) + ((6 - m) * 10) + ((8 - s) * 6) + (c * 6) + ((6 - f) * 6))
stress_of(m, w, s, f, c) == clamp((w * 12) + ((6 - m) * 10) + ((8 - s) * 6) + (c * 6) + ((6 - f) * 8))

motivation_of(m, w, s, f, c) == clamp((m * 14) + (f * 10) + (s * 6) - (w * 8) - (c * 6))

MutRisk(stress, motivation, hit) ==
    LET risk == clamp(round_risk(stress, motivation))
    IN  IF hit THEN risk + 10 ELSE risk
risk_of(stress, motivation, hit) ==
    LET risk == clamp(round_risk(stress, motivation))
    IN  IF hit THEN Min(100, risk + 10) ELSE risk

compute_scores(m, wl, s, f, cf, cm) ==
    LET w          == workload_map[wl]
        c          == conflict_map[cf]
        stress     == stress_of(m, w, s, f, c)
        motivation == motivation_of(m, w, s, f, c)
        hit        == keyword_hit_of(cm)
    IN  <<stress, motivation, risk_of(stress, motivation, hit), hit>>

(***************************************************************************)
(* Appl.py : generate_recommendations                                      *)
(***************************************************************************)
MutLevel(risk) ==
    IF risk > 70 THEN "Élevé"
    ELSE IF risk >= 40 THEN "Modéré"
    ELSE "Faible"
level_of(risk) ==
    IF risk >= 70 THEN "Élevé"
    ELSE IF risk >= 40 THEN "Modéré"
    ELSE "Faible"

Levels == {"Faible", "Modéré", "Élevé"}

\* The texts are the source's, less the leading pictograms of human_note and
\* keyword_action, and with typographic apostrophes and dashes in ASCII.
human_note == "Décision finale laissée au manager humain (IA = aide à la décision)."

keyword_action ==
    "Mots-clés sensibles détectés : renforcer l'attention humaine, proposer un accompagnement adapté."

base_manager_actions == [l \in Levels |->
    CASE l = "Élevé" -> <<
            "Planifier un échange 1:1 sous 48h (écoute active, sans jugement).",
            "Réduire temporairement la charge / re-prioriser les tâches.",
            "Clarifier les attentes, délais, et points de blocage.",
            "Proposer un soutien (mentorat, binômage, pause planifiée).">>
      [] l = "Modéré" -> <<
            "Faire un check-in rapide (10 min) cette semaine.",
            "Ajuster l'organisation : répartition, planning, micro-deadlines.",
            "Encourager la communication sur les obstacles.">>
      [] l = "Faible" -> <<
            "Maintenir le cadre actuel et valoriser les efforts.",
            "Préserver un bon équilibre : charge stable, feedback régulier.">>]

base_team_actions == [l \in Levels |->
    CASE l = "Élevé" -> <<
            "Définir 1-2 priorités maximum pour la prochaine période.",
            "Bloquer une pause et une plage sans interruptions.",
            "Demander de l'aide sur une tâche précise (pair-programming / relecture / support).">>
      [] l = "Modéré" -> <<
            "Lister les blocages et proposer une solution / besoin.",
            "Mettre en place une routine courte de suivi (5 min/jour).">>
      [] l = "Faible" -> <<
            "Continuer les bonnes pratiques (organisation, pauses, communication).">>]

MutManagerActions(level, keyword_hit) ==
    IF keyword_hit
        THEN Append(base_manager_actions[level], keyword_action)
        ELSE base_manager_actions[level]
manager_actions_of(level, keyword_hit) ==
    IF level = "Élevé" /\ keyword_hit
        THEN Append(base_manager_actions[level], keyword_action)
        ELSE base_manager_actions[level]

\* f"Niveau de risque : **{level}** (score {risk}/100)."
summary_of(level, risk) == <<"Niveau de risque : **", level, "** (score ", risk, "/100).">>

generate_recommendations(stress, motivation, risk, keyword_hit) ==
    LET level == level_of(risk)
    IN  <<summary_of(level, risk),
          manager_actions_of(level, keyword_hit),
          base_team_actions[level],
          human_note>>

(***************************************************************************)
(* Appl.py : one rerun of the script                                       *)
(***************************************************************************)
org == "Équipe projet"

\* The entry appended at Appl.py:209-223.
MutEntry(scores) ==
    [ org           |-> org,
      role          |-> role,
      mood          |-> mood,
      workload      |-> workload,
      sleep         |-> sleep,
      focus         |-> focus,
      conflicts     |-> conflicts,
      stress        |-> scores[1],
      motivation    |-> scores[2],
      risk          |-> scores[3],
      flag_keywords |-> scores[4],
      comment       |-> comment ]
Entry(scores) ==
    [ org           |-> org,
      role          |-> role,
      mood          |-> mood,
      workload      |-> workload,
      sleep         |-> sleep,
      focus         |-> focus,
      conflicts     |-> conflicts,
      stress        |-> scores[1],
      motivation    |-> scores[2],
      risk          |-> scores[3],
      flag_keywords |-> scores[4],
      comment       |-> IF anonym THEN <<>> ELSE comment ]

\* What the dashboard column renders after an analysis (Appl.py:225-245).
Rendered(scores) ==
    [kind   |-> "analysis",
     scores |-> scores,
     reco   |-> generate_recommendations(scores[1], scores[2], scores[3], scores[4])]

\* st.error(...) when consent is missing (Appl.py:203).
ConsentRequired == [kind |-> "error"]

\* Nothing analysed in this rerun.
Blank == [kind |-> "none"]

\* Click on "Analyser avec l'IA": the rerun in which submitted is True.
MutSubmit ==
    /\ Len(history) < MaxHistory
    /\ submitted' = TRUE
    /\ LET scores == compute_scores(mood, workload, sleep, focus, conflicts, comment)
       IN  /\ history' = Append(history, Entry(scores))
           /\ shown'   = IF consent THEN Rendered(scores) ELSE ConsentRequired
    /\ UNCHANGED <<mood, workload, sleep, focus, conflicts, comment, role, anonym, consent, args>>
    /\ UNCHANGED collVars
Submit ==
    /\ consent => Len(history) < MaxHistory
    /\ submitted' = TRUE
    /\ IF ~consent
          THEN /\ shown' = ConsentRequired
               /\ UNCHANGED history
          ELSE LET scores == compute_scores(mood, workload, sleep, focus, conflicts, comment)
               IN  /\ history' = Append(history, Entry(scores))
                   /\ shown'   = Rendered(scores)
    /\ UNCHANGED <<mood, workload, sleep, focus, conflicts, comment, role, anonym, consent, args>>
    /\ UNCHANGED collVars

\* A rerun caused by a widget: submitted is False, nothing is analysed.
NoClick ==
    /\ submitted' = FALSE
    /\ shown' = Blank
    /\ UNCHANGED <<history, args>>
    /\ UNCHANGED collVars

\* Form contents followed in a session: the defaults, the best and the worst.
SessionForms ==
    { <<3, "Faible", 7, 3, "Non">>,
      <<5, "Faible", 8, 5, "Non">>,
      <<1, "Élevée", 0, 1, "Oui (important)">> }

\* Comments followed in a session: none, one with a red flag, one without.
SessionComments == { <<>>, <<"M", "a", "l">>, <<"l", "a">> }

\* The sliders, the radio and the select box of the form (Appl.py:175-179).
MoveIndicators ==
    /\ \E f \in SessionForms :
          /\ f # <<mood, workload, sleep, focus, conflicts>>
          /\ mood' = f[1] /\ workload' = f[2] /\ sleep' = f[3]
          /\ focus' = f[4] /\ conflicts' = f[5]
    /\ UNCHANGED <<comment, role, anonym, consent>>
    /\ NoClick

\* The text area (Appl.py:188).
EditComment ==
    /\ \E c \in SessionComments : c # comment /\ comment' = c
    /\ UNCHANGED <<mood, workload, sleep, focus, conflicts, role, anonym, consent>>
    /\ NoClick

\* The "Mode anonymisé" check box (Appl.py:159).
ToggleAnonym ==
    /\ anonym' = ~anonym
    /\ UNCHANGED <<mood, workload, sleep, focus, conflicts, comment, role, consent>>
    /\ NoClick

\* The consent check box (Appl.py:191).
ToggleConsent ==
    /\ consent' = ~consent
    /\ UNCHANGED <<mood, workload, sleep, focus, conflicts, comment, role, anonym>>
    /\ NoClick

\* Collecte.py is not running in the check-in application.
CollIdle ==
    /\ values = <<>> /\ load = None /\ df = None
    /\ org_filter = {} /\ role_filter = {} /\ date_range = [given |-> FALSE, value |-> <<>>]
    /\ filtered = None

\* First run of the script in a new session: every widget at its default.
InitSession ==
    /\ mood = 3 /\ workload = "Faible" /\ sleep = 7 /\ focus = 3 /\ conflicts = "Non"
    /\ comment = <<>>
    /\ role = "Collaborateur" /\ anonym = TRUE /\ consent = TRUE
    /\ submitted = FALSE
    /\ history = <<>>
    /\ shown = Blank
    /\ args = <<>>
    /\ CollIdle

NextSession ==
    \/ Submit
    \/ MoveIndicators
    \/ EditComment
    \/ ToggleAnonym
    \/ ToggleConsent

SpecSession == InitSession /\ [][NextSession]_vars

\* compute_scores and the analysis on every valid form content: the form is
\* filled in any way, then analysed once.
InitScores ==
    /\ mood \in Moods /\ workload \in Workloads /\ sleep \in Sleeps
    /\ focus \in Focuses /\ conflicts \in Conflicts /\ comment \in Comments
    /\ role = "Collaborateur" /\ anonym = TRUE /\ consent = TRUE
    /\ submitted = FALSE
    /\ history = <<>>
    /\ shown = Blank
    /\ args = <<>>
    /\ CollIdle

FirstSubmit == history = <<>> /\ Submit

NextScores == FirstSubmit

SpecScores == InitScores /\ [][NextScores]_vars

\* generate_recommendations on its own arguments.
ScoreSamples == {0, 39, 40, 69, 70, 100}

RecoArgs == ScoreSamples \X ScoreSamples \X (0..100) \X BOOLEAN

InitReco ==
    /\ mood = 3 /\ workload = "Faible" /\ sleep = 7 /\ focus = 3 /\ conflicts = "Non"
    /\ comment = <<>>
    /\ role = "Collaborateur" /\ anonym = TRUE /\ consent = TRUE
    /\ submitted = FALSE
    /\ history = <<>>
    /\ shown = Blank
    /\ args \in RecoArgs
    /\ CollIdle

Recommend ==
    /\ args # <<>> /\ shown.kind = "none"
    /\ shown' = Rendered(args)
    /\ UNCHANGED <<mood, workload, sleep, focus, conflicts, comment, role, anonym,
                   consent, submitted, history, args>>
    /\ UNCHANGED collVars

NextReco == Recommend

SpecReco == InitReco /\ [][NextReco]_vars

(***************************************************************************)
(* Collecte.py : load_data                                                 *)
(***************************************************************************)
cols == <<"timestamp", "organization", "user_role",
          "mood", "workload", "sleep_hours", "focus",
          "conflicts", "comment">>

Range(q) == {q[n] : n \in 1..Len(q)}

\* A cell of the loaded table is <<v>> for a value v and <<>> for a missing
\* one (NaT, NaN or None).
Missing == <<>>

\* pd.to_datetime(..., errors="coerce"): the day of a well-formed cell, NaT
\* otherwise.  Only the date of a timestamp is read afterwards (.dt.date,
\* .date()), so a timestamp is kept as its day number.
DayOf == [t \in {"2024-01-01", "2024-01-02"} |->
            CASE t = "2024-01-01" -> 1 [] t = "2024-01-02" -> 2]
to_datetime(cell) == IF cell \in DOMAIN DayOf THEN <<DayOf[cell]>> ELSE Missing

\* pd.to_numeric(..., errors="coerce"): the number a cell spells, NaN otherwise.
NumberOf == [t \in {"0", "1", "2", "3", "4", "5", "6", "7", "8", "9", "10"} |->
               CASE t = "0" -> 0 [] t = "1" -> 1 [] t = "2" -> 2 [] t = "3" -> 3
                 [] t = "4" -> 4 [] t = "5" -> 5 [] t = "6" -> 6 [] t = "7" -> 7
                 [] t = "8" -> 8 [] t = "9" -> 9 [] t = "10" -> 10]
to_numeric(cell) == IF cell \in DOMAIN NumberOf THEN <<NumberOf[cell]>> ELSE Missing

NumericCols == <<"mood", "sleep_hours", "focus">>

\* "if not values or len(values) < 2"
MutTooShort(v) == Len(v) < 1
TooShort(v) == Len(v) < 2

\* The first column the type conversions index that the header lacks
\* (df["timestamp"], then df[c] for c in mood, sleep_hours, focus): the
\* KeyError of Collecte.py:42-44.  <<>> when all four are there.
FirstKeyError(header) ==
    LET typed == <<"timestamp">> \o NumericCols
        lacks == {n \in 1..Len(typed) : typed[n] \notin Range(header)}
    IN  IF lacks = {} THEN <<>>
        ELSE <<typed[CHOOSE n \in lacks : \A k \in lacks : n <= k]>>

\* One row of pd.DataFrame(rows, columns=header) after the conversions, the
\* insertion of the absent columns and the projection on cols.
LoadRow(header, row) ==
    [c \in Range(cols) |->
        IF c \notin Range(header) THEN Missing
        ELSE LET cell == row[CHOOSE n \in 1..Len(header) : header[n] = c]
             IN  IF c = "timestamp" THEN to_datetime(cell)
                 ELSE IF c \in Range(NumericCols) THEN to_numeric(cell)
                 ELSE <<cell>>]

load_data(v) ==
    IF TooShort(v)
        THEN [ok |-> TRUE, df |-> [columns |-> cols, rows |-> <<>>]]
    ELSE LET header == v[1]
             rows   == Tail(v)
         IN  IF FirstKeyError(header) # <<>>
                 THEN [ok |-> FALSE, error |-> <<"KeyError", FirstKeyError(header)[1]>>]
             ELSE [ok |-> TRUE,
                   df |-> [columns |-> cols,
                           rows    |-> [n \in 1..Len(rows) |-> LoadRow(header, rows[n])]]]

(***************************************************************************)
(* Collecte.py : sidebar filters and their application                     *)
(***************************************************************************)
\* Alphabetical order of the organisation and role cells, for sorted(...).
Alphabetical == <<"", "Conseil", "Manager", "RH", "Usine">>

Sorted(S) == SelectSeq(Alphabetical, LAMBDA x : x \in S)

\* sorted([x for x in df[col].dropna().unique().tolist() if str(x).strip() != ""])
Options(d, col) ==
    Sorted({d.rows[n][col][1] : n \in {k \in 1..Len(d.rows) : d.rows[k][col] # Missing}} \ {""})

HasTimestamp(rows) == \E n \in 1..Len(rows) : rows[n]["timestamp"] # Missing

Days(rows) == {rows[n]["timestamp"][1] : n \in {k \in 1..Len(rows) : rows[k]["timestamp"] # Missing}}
MinOf(S) == CHOOSE x \in S : \A y \in S : x <= y
MaxOf(S) == CHOOSE x \in S : \A y \in S : x >= y

\* date_range: the tuple st.date_input returned, or None when the widget is
\* not drawn (Collecte.py:88-93).
NoDateInput == [given |-> FALSE, value |-> <<>>]
DateInput(t) == [given |-> TRUE, value |-> t]

DefaultDates(d) ==
    IF HasTimestamp(d.rows)
        THEN DateInput(<<MinOf(Days(d.rows)), MaxOf(Days(d.rows))>>)
        ELSE NoDateInput

\* "if date_range and isinstance(date_range, tuple) and len(date_range) == 2
\*  and filtered["timestamp"].notna().any()"
MutDateFilterApplies(dr, rows) == dr.given /\ Len(dr.value) = 2
DateFilterApplies(dr, rows) == dr.given /\ Len(dr.value) = 2 /\ HasTimestamp(rows)

\* (timestamp.dt.date >= start) & (timestamp.dt.date <= end); a comparison
\* with NaT is False.
InDates(ts, start, end) == ts # Missing /\ ts[1] >= start /\ ts[1] <= end

\* Collecte.py:101-113
apply_filters(d, of, rf, dr) ==
    LET f0 == d.rows
        f1 == IF of # {}
                 THEN SelectSeq(f0, LAMBDA r : r["organization"] # Missing
                                               /\ r["organization"][1] \in of)
                 ELSE f0
        f2 == IF rf # {}
                 THEN SelectSeq(f1, LAMBDA r : r["user_role"] # Missing
                                               /\ r["user_role"][1] \in rf)
                 ELSE f1
    IN  IF DateFilterApplies(dr, f2)
            THEN SelectSeq(f2, LAMBDA r : InDates(r["timestamp"], dr.value[1], dr.value[2]))
            ELSE f2

(***************************************************************************)
(* Collecte.py : the worksheet and one rerun of the script                 *)
(***************************************************************************)
\* Column order of the worksheet: not the order of cols, and one column the
\* dashboard does not know.
SheetOrder == <<"organization", "timestamp", "note", "user_role", "mood",
                "sleep_hours", "workload", "focus", "comment", "conflicts">>

\* Headers followed: the worksheet's with up to two columns absent, and the
\* empty one.
Headers ==
    {SelectSeq(SheetOrder, LAMBDA c : c \in S) :
        S \in {T \in SUBSET Range(SheetOrder) :
                    T = {} \/ Cardinality(Range(SheetOrder) \ T) <= 2}}

\* Rows the collaborators' form wrote, as strings.
RowKinds == {
    [timestamp |-> "2024-01-01", organization |-> "Usine", user_role |-> "Manager",
     mood |-> "4", workload |-> "Faible", sleep_hours |-> "7", focus |-> "3",
     conflicts |-> "Non", comment |-> "RAS", note |-> ""],
    [timestamp |-> "2024-01-02", organization |-> "Conseil", user_role |-> "RH",
     mood |-> "bien", workload |-> "Moyenne", sleep_hours |-> "10", focus |-> "5",
     conflicts |-> "Oui (léger)", comment |-> "", note |-> "x"],
    [timestamp |-> "", organization |-> "Usine", user_role |-> "RH",
     mood |-> "2", workload |-> "Élevée", sleep_hours |-> "", focus |-> "1",
     conflicts |-> "Oui (important)", comment |-> "pression", note |-> ""] }

Sheets ==
    {<<>>} \cup
    { <<h>> \o [n \in 1..Len(ks) |-> [i \in 1..Len(h) |-> ks[n][h[i]]]] :
        h \in Headers, ks \in SeqsUpTo(RowKinds, MaxRows) }

\* Days the date input can be set to.
PickableDays == {DayOf[t] : t \in DOMAIN DayOf}
DateInputs ==
    {DateInput(<<>>)}
    \cup {DateInput(<<a>>) : a \in PickableDays}
    \cup {DateInput(<<a, b>>) : a \in PickableDays, b \in PickableDays}

\* Appl.py is not running in the consultation dashboard.
ApplIdle ==
    /\ mood = 3 /\ workload = "Faible" /\ sleep = 7 /\ focus = 3 /\ conflicts = "Non"
    /\ comment = <<>>
    /\ role = "Collaborateur" /\ anonym = TRUE /\ consent = TRUE
    /\ submitted = FALSE
    /\ history = <<>>
    /\ shown = Blank
    /\ args = <<>>

\* The script run with the given widget values (Collecte.py:68-113); the
\* worksheet is read again and has not changed.
Run(of, rf, dr) ==
    /\ UNCHANGED values
    /\ load' = load_data(values)
    /\ IF load'.ok
          THEN /\ df' = load'.df
               /\ org_filter' = of
               /\ role_filter' = rf
               /\ date_range' = dr
               /\ filtered' = apply_filters(load'.df, of, rf, dr)
          ELSE \* st.error, st.stop()
               /\ df' = None
               /\ org_filter' = {} /\ role_filter' = {} /\ date_range' = NoDateInput
               /\ filtered' = None

\* First run: every filter at its default (Collecte.py:83-84, 91).
InitCollecte ==
    /\ values \in Sheets
    /\ load = load_data(values)
    /\ IF load.ok
          THEN /\ df = load.df
               /\ org_filter = Range(SubSeq(Options(df, "organization"), 1,
                                            Min(1, Len(Options(df, "organization")))))
               /\ role_filter = Range(Options(df, "user_role"))
               /\ date_range = DefaultDates(df)
               /\ filtered = apply_filters(df, org_filter, role_filter, date_range)
          ELSE /\ df = None
               /\ org_filter = {} /\ role_filter = {} /\ date_range = NoDateInput
               /\ filtered = None
    /\ ApplIdle

\* The "Organisation / Équipe" multiselect.
SelectOrgs ==
    /\ load.ok
    /\ \E of \in SUBSET Range(Options(df, "organization")) :
          /\ of # org_filter
          /\ Run(of, role_filter, date_range)
    /\ UNCHANGED applVars

\* The "Rôle" multiselect.
SelectRoles ==
    /\ load.ok
    /\ \E rf \in SUBSET Range(Options(df, "user_role")) :
          /\ rf # role_filter
          /\ Run(org_filter, rf, date_range)
    /\ UNCHANGED applVars

\* The "Du / au" date input, drawn only when some timestamp is present.
PickDates ==
    /\ load.ok
    /\ HasTimestamp(df.rows)
    /\ \E dr \in DateInputs :
          /\ dr # date_range
          /\ Len(dr.value) = 2 => dr.value[1] <= dr.value[2]
          /\ Run(org_filter, role_filter, dr)
    /\ UNCHANGED applVars

NextCollecte ==
    \/ SelectOrgs
    \/ SelectRoles
    \/ PickDates

SpecCollecte == InitCollecte /\ [][NextCollecte]_vars

(***************************************************************************)
(* Properties of Collecte.py                                               *)
(***************************************************************************)
\* C6: a source with a header and at least one data row loads into a table
\* of exactly the nine expected columns in order, one row per data row,
\* every required column the header lacks being all missing; an absent
\* column never makes the load fail.
C6_MissingColumnsFilled ==
    (Len(values) >= 2 /\ values[1] # <<>>) =>
        /\ load.ok
        /\ load.df.columns = cols
        /\ Len(load.df.rows) = Len(values) - 1
        /\ \A n \in 1..Len(load.df.rows) :
              /\ DOMAIN load.df.rows[n] = Range(cols)
              /\ \A c \in Range(cols) \ Range(values[1]) : load.df.rows[n][c] = Missing

\* C7: an empty or header-only source loads, without error, into an empty
\* table of exactly the expected columns, whatever the header holds.
C7_EmptySource ==
    Len(values) < 2 =>
        /\ load.ok
        /\ load.df.columns = cols
        /\ load.df.rows = <<>>

\* C7 witness: a header-only source whose header lacks "timestamp" was loaded.
C7_Witness ==
    /\ Len(values) = 1
    /\ "timestamp" \notin Range(values[1])
    /\ "organization" \in Range(values[1])
    /\ load.ok

\* The rows of q at the indices K, in their order in q.
Kept(q, K) ==
    [i \in 1..Cardinality(K) |->
        q[CHOOSE n \in K : Cardinality({k \in K : k <= n}) = i]]

PassesOrg(r) ==
    org_filter = {} \/ (r["organization"] # Missing /\ r["organization"][1] \in org_filter)
PassesRole(r) ==
    role_filter = {} \/ (r["user_role"] # Missing /\ r["user_role"][1] \in role_filter)
TwoBounds == date_range.given /\ Len(date_range.value) = 2
WithinDates(r) ==
    /\ r["timestamp"] # Missing
    /\ date_range.value[1] <= r["timestamp"][1]
    /\ r["timestamp"][1] <= date_range.value[2]

\* C8 as stated: a record is kept iff it passes the organisation set, the
\* role set and, whenever a two-bound date range is given, has a timestamp
\* within the range; the kept records are in their original order.
C8_FilterAsStated ==
    load.ok =>
        filtered = Kept(df.rows,
                        {n \in 1..Len(df.rows) :
                            /\ PassesOrg(df.rows[n])
                            /\ PassesRole(df.rows[n])
                            /\ TwoBounds => WithinDates(df.rows[n])})

\* Some record that passes the organisation and role sets has a timestamp.
SurvivorHasTimestamp ==
    \E n \in 1..Len(df.rows) :
        /\ PassesOrg(df.rows[n]) /\ PassesRole(df.rows[n])
        /\ df.rows[n]["timestamp"] # Missing

\* C8 amended: the date range is applied only when it has two bounds and
\* some record that passed the organisation and role sets has a timestamp;
\* otherwise the records that passed those sets are all kept, those without
\* a timestamp included.
C8_FilterAmended ==
    load.ok =>
        filtered = Kept(df.rows,
                        {n \in 1..Len(df.rows) :
                            /\ PassesOrg(df.rows[n])
                            /\ PassesRole(df.rows[n])
                            /\ (TwoBounds /\ SurvivorHasTimestamp) => WithinDates(df.rows[n])})

\* C8 witness: a two-bound range is set, the table has timestamps, the
\* records that passed the organisation and role sets have none and are kept.
C8_Witness ==
    /\ load.ok
    /\ TwoBounds
    /\ HasTimestamp(df.rows)
    /\ ~SurvivorHasTimestamp
    /\ Len(filtered) > 0

(***************************************************************************)
(* Properties of Appl.py                                                   *)
(***************************************************************************)
Analysed == shown.kind = "analysis"

\* C1: for every valid form content the stress, motivation and risk returned
\* by compute_scores are integers in 0..100, and so are those of every entry
\* of the session history.
C1_ScoresInRange ==
    /\ Analysed => \A i \in 1..3 : shown.scores[i] \in 0..100
    /\ \A n \in 1..Len(history) :
          /\ history[n].stress \in 0..100
          /\ history[n].motivation \in 0..100
          /\ history[n].risk \in 0..100

\* C1 witness: the worst form content, where both clamps cut the raw value.
C1_Witness ==
    /\ Analysed /\ Len(history) = 1
    /\ mood = 1 /\ workload = "Élevée" /\ sleep = 0 /\ focus = 1
    /\ conflicts = "Oui (important)"
    /\ history[1].stress = 100 /\ history[1].motivation = 0

\* The severity weights and the clamp as the specification words them.
Severity(x) ==
    CASE x \in {"Faible", "Non"}                  -> 1
      [] x \in {"Moyenne", "Oui (léger)"}         -> 3
      [] x \in {"Élevée", "Oui (important)"}      -> 5
Clamped(x) == IF x < 0 THEN 0 ELSE IF x > 100 THEN 100 ELSE x

\* C2: stress = clamp(12w + 10(6-mood) + 6(8-sleep) + 6c + 8(6-focus)) and
\* motivation = clamp(14 mood + 10 focus + 6 sleep - 8w - 6c); the form
\* (5, Faible, 8, 5, Non, no comment) gives stress 36, motivation 100, risk 22.
C2_ScoreFormulas ==
    Analysed =>
        LET w == Severity(workload)
            c == Severity(conflicts)
        IN  /\ shown.scores[1] =
                 Clamped(12 * w + 10 * (6 - mood) + 6 * (8 - sleep) + 6 * c + 8 * (6 - focus))
            /\ shown.scores[2] =
                 Clamped(14 * mood + 10 * focus + 6 * sleep - 8 * w - 6 * c)
            /\ (/\ mood = 5 /\ workload = "Faible" /\ sleep = 8 /\ focus = 5
                /\ conflicts = "Non" /\ comment = <<>>)
               => shown.scores = <<36, 100, 22, FALSE>>

\* C2 witness: the worked example has been analysed.
C2_Witness ==
    /\ Analysed
    /\ mood = 5 /\ workload = "Faible" /\ sleep = 8 /\ focus = 5
    /\ conflicts = "Non" /\ comment = <<>>

\* r is the integer nearest to 0.6 * stress + 0.4 * (100 - motivation).
IsNearest(r, stress, motivation) ==
    /\ 10 * r - 5 < 6 * stress + 4 * (100 - motivation)
    /\ 6 * stress + 4 * (100 - motivation) < 10 * r + 5

\* C3: risk = round(0.6 stress + 0.4 (100 - motivation)), plus 10 capped at
\* 100 when the keyword flag is set; with the same five indicators a comment
\* that sets the flag gives the risk of a comment that does not, plus 10,
\* capped at 100.
C3_RiskFormula ==
    Analysed =>
        LET stress     == shown.scores[1]
            motivation == shown.scores[2]
            risk       == shown.scores[3]
            flag       == shown.scores[4]
        IN  /\ ~flag => IsNearest(risk, stress, motivation)
            /\ flag  => \/ risk <= 100 /\ IsNearest(risk - 10, stress, motivation)
                        \/ risk = 100 /\ \E r \in 91..100 : IsNearest(r, stress, motivation)
            /\ \A c2 \in {<<>>, <<"l", "a", "M">>, <<"m", "a", "l">>} :
                  LET other == compute_scores(mood, workload, sleep, focus, conflicts, c2)
                  IN  /\ other[4] = flag => other[3] = risk
                      /\ (flag /\ ~other[4]) => risk = Min(100, other[3] + 10)

\* C3 witness: a flagged comment on a form whose unflagged risk is above 90,
\* so that the cap at 100 decides the result.
C3_Witness ==
    /\ Analysed
    /\ shown.scores[4] = TRUE
    /\ \E r \in 91..100 : IsNearest(r, shown.scores[1], shown.scores[2])
    /\ shown.scores[3] = 100

\* The band as the specification words it.
Band(risk) ==
    IF risk >= 70 THEN "High" ELSE IF risk >= 40 THEN "Moderate" ELSE "Low"
BandLabel(band) ==
    CASE band = "High" -> "Élevé" [] band = "Moderate" -> "Modéré" [] band = "Low" -> "Faible"

\* C4: the band of the summary is High iff risk >= 70, Moderate iff
\* 40 <= risk < 70 and Low iff risk < 40, whatever stress, motivation and
\* keyword flag are, and the summary carries the band label and the risk.
C4_BandFromRisk ==
    Analysed =>
        LET risk    == shown.scores[3]
            summary == shown.reco[1]
        IN  /\ summary[2] = BandLabel(Band(risk))
            /\ summary[2] = "Élevé"  <=> risk >= 70
            /\ summary[2] = "Modéré" <=> (40 <= risk /\ risk < 70)
            /\ summary[2] = "Faible" <=> risk < 40
            /\ summary[4] = risk

\* C4 witness: risk 70 is High although stress is 0 and motivation 100.
C4_Witness ==
    /\ Analysed
    /\ args = <<0, 100, 70, FALSE>>
    /\ shown.reco[1][2] = "Élevé"

\* C5: the action lists depend only on the band and the keyword flag; one
\* extra manager action, the keyword warning, is appended last iff the band
\* is High and the flag is set; in the other bands the flag changes nothing;
\* the peer list and the note never depend on the flag.
C5_ActionLists ==
    Analysed =>
        LET risk    == shown.scores[3]
            flag    == shown.scores[4]
            manager == shown.reco[2]
            plain   == generate_recommendations(shown.scores[1], shown.scores[2], risk, FALSE)
            extra   == Band(risk) = "High" /\ flag
        IN  /\ \A s2 \in {0, 100}, m2 \in {0, 100}, r2 \in 0..100, k2 \in BOOLEAN :
                  Band(r2) = Band(risk) =>
                      LET o2 == generate_recommendations(s2, m2, r2, k2)
                      IN  /\ o2[3] = shown.reco[3]
                          /\ o2[4] = shown.reco[4]
                          /\ (k2 = flag \/ Band(risk) # "High") => o2[2] = manager
            /\ \A n \in 1..Len(plain[2]) : plain[2][n] # keyword_action
            /\ manager = IF extra THEN Append(plain[2], keyword_action) ELSE plain[2]

\* C5 witness: High band with the flag set, five manager actions.
C5_Witness ==
    /\ Analysed
    /\ args[3] >= 70 /\ args[4] = TRUE
    /\ Len(shown.reco[2]) = 5
    /\ shown.reco[2][5] = keyword_action

\* C9: an entry appended while the anonymisation box is ticked stores the
\* empty comment whatever was typed, and the typed comment otherwise; its
\* keyword flag and risk are those computed from the typed comment.
C9_AnonymisedComment ==
    [][ history' # history =>
          LET e      == history'[Len(history')]
              scores == compute_scores(mood', workload', sleep', focus', conflicts', comment')
          IN  /\ e.comment = IF anonym' THEN <<>> ELSE comment'
              /\ e.flag_keywords = scores[4]
              /\ e.flag_keywords = Contains(lower(comment'), <<"m", "a", "l">>)
              /\ e.risk = scores[3] ]_vars

\* C9 witness: a flagged comment was just analysed with the box ticked; the
\* entry holds no text but keeps the flag.
C9_Witness ==
    /\ submitted /\ Analysed /\ anonym
    /\ comment = <<"M", "a", "l">>
    /\ history[Len(history)].comment = <<>>
    /\ history[Len(history)].flag_keywords = TRUE

\* C10: the history starts empty; a submission with consent appends exactly
\* one entry at the end, any other interaction leaves the history as it was;
\* so every earlier history is a prefix of every later one.
C10_AppendOnly ==
    /\ history = <<>>
    /\ [][ IF submitted' /\ consent'
              THEN /\ Len(history') = Len(history) + 1
                   /\ SubSeq(history', 1, Len(history)) = history
              ELSE history' = history ]_vars

\* C10 witness: two different entries in the history.
C10_Witness ==
    /\ Len(history) = 2
    /\ history[1] # history[2]

\* Every entry of the session history has its three scores in 0..100.
HistoryInRange ==
    \A n \in 1..Len(history) :
        /\ history[n].stress \in 0..100
        /\ history[n].motivation \in 0..100
        /\ history[n].risk \in 0..100

====
